---- MODULE Spec2Model ----
(***************************************************************************)
(* Model of the denormalized data-access layer of the messenger backend:   *)
(* app/models/cassandra_models.py (MessageModel, ConversationModel), the   *)
(* paginating controllers in app/controllers, and the four tables declared *)
(* in scripts/setup_db.py.                                                 *)
(*                                                                         *)
(* The store is shared by several server processes (workers).  Every call  *)
(* of cassandra_client.execute is one atomic step on the store; the steps  *)
(* of different processes interleave freely, because the code takes no     *)
(* lock and uses no conditional write.  Time is the wall clock in          *)
(* milliseconds, the precision of a Cassandra timestamp column.            *)
(***************************************************************************)
EXTENDS Integers, Sequences, FiniteSets, TLC

\* ---------------------------------------------------------------- bounds
NProcs == 2        \* server processes sharing the store
MaxUser == 2       \* user ids are 1..MaxUser
MaxTime == 2       \* the clock runs from 1 to MaxTime
MaxMsgs == 2       \* message ids (uuid4 values) available
MaxFailures == 1   \* store calls that may raise
MaxCalls == 2      \* calls (resolve, send) that are started
MaxLimit == 2      \* page sizes 1..MaxLimit
MaxPage == 2       \* page numbers 1..MaxPage
NThreads == 2      \* threads of one process that use the CassandraClient
MaxUses == 3       \* uses of the CassandraClient in one process
MaxRetries == 2    \* attempts of connect(); the default of the code is 30

\* ------------------------------------------------------- program constants
NULL == 0          \* a column that is not set (NULL), an argument that is None
IdFactor == 1000   \* the multiplier and modulus of the conversation id

Procs == 1..NProcs
Users == 1..MaxUser
MsgIds == 1..MaxMsgs
Threads == 1..NThreads
Contents == {"hello", "bye"}
NoContent == ""

VARIABLES
    now,                        \* wall clock, milliseconds
    messages_by_conversation,   \* table, key (conversation_id, created_at, message_id)
    conversations_by_user,      \* table, key (user_id, last_message_at, conversation_id)
    conversation_metadata,      \* table, key (conversation_id)
    user_conversations_lookup,  \* table, key (user1_id, user2_id)
    pc,                         \* pc[p]: the statement process p executes next
    loc,                        \* loc[p]: arguments, locals and result of p's call
    failures,                   \* store calls that have raised so far
    calls,                      \* calls started so far
    returns,                    \* history: <<user1_id, user2_id, id>> of each resolve
                                \* that has returned
    created_order,              \* history: the message ids in the order in which
                                \* their create_message calls read the clock
    instance,                   \* CassandraClient._instance of one process
    initialized,                \* its _initialized
    cluster,                    \* its cluster: NULL or the number of a Cluster
    session,                    \* its session: NULL or the number of a Session
    clusters,                   \* Cluster objects created in the process
    connections,                \* sessions opened by cluster.connect(keyspace)
    tpc,                        \* tpc[t]: the statement thread t executes next
    tcall,                      \* tcall[t]: the method thread t is in
    attempt,                    \* attempt[t]: the connect() call of thread t
    obtained,                   \* obtained[t]: the session t last worked with
    uses                        \* uses of the client started so far

vars == <<now, messages_by_conversation, conversations_by_user,
          conversation_metadata, user_conversations_lookup, pc, loc, failures,
          calls, returns, created_order, instance, initialized, cluster,
          session, clusters, connections, tpc, tcall, attempt, obtained, uses>>

\* The state of the CassandraClient of one process and of its threads.
client == <<instance, initialized, cluster, session, clusters, connections,
            tpc, tcall, attempt, obtained, uses>>

\* The state of the store and of the calls of the server processes.
service == <<now, messages_by_conversation, conversations_by_user,
             conversation_metadata, user_conversations_lookup, pc, loc,
             failures, calls, returns, created_order>>

history == <<returns, created_order>>

tables == <<messages_by_conversation, conversations_by_user,
            conversation_metadata, user_conversations_lookup>>

\* ------------------------------------------------------------ the tables
\* INSERT and UPDATE are upserts on the primary key.
MessageKey(r) == <<r.conversation_id, r.created_at, r.message_id>>
SummaryKey(r) == <<r.user_id, r.last_message_at, r.conversation_id>>
LookupKey(r) == <<r.user1_id, r.user2_id>>

\* A slip: a Message row is keyed by conversation and created_at alone.
InsertMessage_KeyWithoutId(table, row) ==
    {r \in table : <<r.conversation_id, r.created_at>>
                       # <<row.conversation_id, row.created_at>>} \cup {row}

InsertMessage(table, row) ==
    {r \in table : MessageKey(r) # MessageKey(row)} \cup {row}

InsertSummary(table, row) ==
    {r \in table : SummaryKey(r) # SummaryKey(row)} \cup {row}

InsertLookup(table, row) ==
    {r \in table : LookupKey(r) # LookupKey(row)} \cup {row}

\* INSERT INTO conversation_metadata (conversation_id, user1_id, user2_id,
\* created_at, last_message_at) VALUES (.., NULL): the named columns are
\* written, last_message_content keeps the value an existing row has.
InsertMetadata(table, cid, u1, u2, ts) ==
    LET old == {r \in table : r.conversation_id = cid}
        content == IF old = {} THEN NoContent
                   ELSE (CHOOSE r \in old : TRUE).last_message_content
    IN  (table \ old) \cup
        {[conversation_id |-> cid, user1_id |-> u1, user2_id |-> u2,
          created_at |-> ts, last_message_at |-> NULL,
          last_message_content |-> content]}

\* A slip: the UPDATE also reaches the rows of the other conversations.
UpdateMetadata_AllRows(table, cid, ts, content) ==
    LET old == {r \in table : r.conversation_id = cid}
        new == IF old = {}
               THEN {[conversation_id |-> cid, user1_id |-> NULL, user2_id |-> NULL,
                      created_at |-> NULL, last_message_at |-> ts,
                      last_message_content |-> content]}
               ELSE {}
    IN  {[r EXCEPT !.last_message_at = ts, !.last_message_content = content] :
            r \in table} \cup new

\* UPDATE conversation_metadata SET last_message_at, last_message_content
\* WHERE conversation_id: sets the two columns, and creates the row with the
\* other columns unset when there is none.
UpdateMetadata(table, cid, ts, content) ==
    LET old == {r \in table : r.conversation_id = cid}
        base == IF old = {}
                THEN [conversation_id |-> cid, user1_id |-> NULL, user2_id |-> NULL,
                      created_at |-> NULL, last_message_at |-> NULL,
                      last_message_content |-> NoContent]
                ELSE CHOOSE r \in old : TRUE
    IN  (table \ old) \cup
        {[base EXCEPT !.last_message_at = ts, !.last_message_content = content]}

\* ------------------------------------------------- conversation identity
\* conversation_id = int(time.time() * 1000) + (user1_id * 1000) + (user2_id % 1000)
ConvId(t, user1_id, user2_id) ==
    t + (user1_id * IdFactor) + (user2_id % IdFactor)

\* A slip: the pair is kept in the order of the arguments.
Canonical_AsGiven(a, b) == <<a, b>>

\* A slip: the pair is always swapped.
Canonical_Swapped(a, b) == <<b, a>>

\* if user1_id > user2_id: user1_id, user2_id = user2_id, user1_id
Canonical(a, b) == IF a > b THEN <<b, a>> ELSE <<a, b>>

\* SELECT conversation_id FROM user_conversations_lookup WHERE user1_id, user2_id
LookupRows(u1, u2) ==
    {r \in user_conversations_lookup : r.user1_id = u1 /\ r.user2_id = u2}

\* ---------------------------------------------------------- process state
NoCall ==
    [op |-> "none", status |-> "none", sender_id |-> NULL, receiver_id |-> NULL,
     content |-> NoContent, conversation_id |-> NULL, timestamp |-> NULL,
     message_id |-> NULL, user1_id |-> NULL, user2_id |-> NULL,
     created_at |-> NULL, overlap |-> {}, status_code |-> NULL, reads |-> 0,
     error |-> "none", found |-> TRUE, failed_at |-> "none", retry |-> FALSE]

\* The processes whose running call resolves the pair (u1, u2).
Resolving(u1, u2) ==
    {q \in Procs : /\ pc[q] \in {"lookup", "gen_id", "ins_lookup", "ins_meta"}
                   /\ loc[q].user1_id = u1 /\ loc[q].user2_id = u2}

\* Message ids (uuid4 values) no call has drawn yet.
FreshIds ==
    MsgIds \ {created_order[i] : i \in 1..Len(created_order)}

\* Conversation ids a caller can have learned from the store.
KnownConvIds ==
    {r.conversation_id : r \in user_conversations_lookup}
    \cup {r.conversation_id : r \in conversation_metadata}

\* The connect() call of a thread: the attempt it is in, its `retries`
\* argument, the time.sleep(delay) calls it has made, how it ended, and
\* whether it was called directly and not by a first use.
NoConnect ==
    [n |-> 0, retries |-> 0, sleeps |-> 0, outcome |-> "none", direct |-> FALSE]

\* cassandra_client = CassandraClient() has run at import: the instance
\* exists, is initialized, and has no cluster and no session yet.
ClientInit ==
    /\ instance = 1
    /\ initialized = TRUE
    /\ cluster = NULL
    /\ session = NULL
    /\ clusters = 0
    /\ connections = 0
    /\ tpc = [t \in Threads |-> "idle"]
    /\ tcall = [t \in Threads |-> "none"]
    /\ attempt = [t \in Threads |-> NoConnect]
    /\ obtained = [t \in Threads |-> NULL]
    /\ uses = 0

Init ==
    /\ ClientInit
    /\ now = 1
    /\ messages_by_conversation = {}
    /\ conversations_by_user = {}
    /\ conversation_metadata = {}
    /\ user_conversations_lookup = {}
    /\ pc = [p \in Procs |-> "idle"]
    /\ loc = [p \in Procs |-> NoCall]
    /\ failures = 0
    /\ calls = 0
    /\ returns = {}
    /\ created_order = <<>>

\* The wall clock advances.
Tick ==
    /\ now < MaxTime
    /\ now' = now + 1
    /\ UNCHANGED client
    /\ UNCHANGED <<tables, pc, loc, failures, calls, history>>

\* The processes are interchangeable: they make their first calls in the
\* order of their numbers.
MayStart(p) ==
    /\ pc[p] = "idle"
    /\ calls < MaxCalls
    /\ \A q \in Procs : q < p => loc[q].op # "none"

\* What a call keeps after it has returned: its arguments and its result.
Returned(l) == [l EXCEPT !.status = "ok", !.created_at = NULL]

\* The resolve of the call l has returned l.conversation_id.
ResolveReturned(l) ==
    returns \cup {<<l.user1_id, l.user2_id, l.conversation_id>>}

\* What is known of a call that an exception has left: its arguments, the
\* message_id it had drawn, and the store call that raised; send_message
\* answers HTTP 500.
Raised(l, at) ==
    [NoCall EXCEPT !.op = l.op, !.status = "error", !.sender_id = l.sender_id,
                   !.receiver_id = l.receiver_id, !.content = l.content,
                   !.message_id = l.message_id, !.failed_at = at,
                   !.status_code = 500, !.error = "generic"]

\* The store calls of create_message that follow the insert of the Message row.
AfterMessage == {"ins_cbu_sender", "ins_cbu_receiver", "upd_meta"}

\* A send with these arguments has failed after it had written its Message
\* row: the caller sends the same message again.
IsRetry(s, r, content) ==
    \E q \in Procs :
        /\ loc[q].op = "send" /\ loc[q].status = "error"
        /\ loc[q].failed_at \in AfterMessage
        /\ loc[q].sender_id = s /\ loc[q].receiver_id = r
        /\ loc[q].content = content

\* A call of p begins: the calls that overlap it are recorded on both sides.
StartOverlap(p, u1, u2, call) ==
    [q \in Procs |->
        IF q = p THEN [call EXCEPT !.overlap = Resolving(u1, u2) \ {p}]
        ELSE IF q \in Resolving(u1, u2)
             THEN [loc[q] EXCEPT !.overlap = @ \cup {p}]
             ELSE [loc[q] EXCEPT !.overlap = @ \ {p}]]

\* datetime.isoformat(): the text of a timestamp.
isoformat(t) == <<"iso", t>>

\* ConversationModel.get_conversation(conversation_id): None when the SELECT
\* finds no row; row["created_at"].isoformat() raises AttributeError when the
\* column is not set; else the dictionary of the row.
get_conversation(conversation_id) ==
    LET rows == {r \in conversation_metadata : r.conversation_id = conversation_id}
        none == [outcome |-> "None", conversation_id |-> NULL,
                 participant_ids |-> <<>>, created_at |-> NULL,
                 last_updated |-> NULL]
    IN  IF rows = {} THEN none
        ELSE LET row == CHOOSE r \in rows : TRUE
             IN  IF row.created_at = NULL
                 THEN [none EXCEPT !.outcome = "AttributeError"]
                 ELSE [outcome |-> "dict",
                       conversation_id |-> row.conversation_id,
                       participant_ids |-> <<row.user1_id, row.user2_id>>,
                       created_at |-> isoformat(row.created_at),
                       last_updated |->
                           IF row.last_message_at # NULL
                           THEN isoformat(row.last_message_at)
                           ELSE isoformat(row.created_at)]

\* ConversationController.get_conversation: 404 for None (the HTTPException
\* is re-raised), 500 for any other exception, 200 with the conversation.
Controller_get_conversation(conversation_id) ==
    LET conversation == get_conversation(conversation_id)
    IN  IF conversation.outcome = "None" THEN 404
        ELSE IF conversation.outcome = "dict" THEN 200
        ELSE 500

\* ConversationController.create_or_get_conversation, after the model call
\* has returned the id: one get_conversation; for None the HTTPException(404)
\* is raised inside the try block and caught by `except Exception`, like any
\* other exception: the response is a 500, "Failed to create conversation".
\* The read is not repeated.
CreateOrGet_GetConversation(p) ==
    /\ pc[p] = "get_conv"
    /\ LET conversation == get_conversation(loc[p].conversation_id)
       IN  loc' = [loc EXCEPT
                      ![p].reads = @ + 1,
                      ![p].found = (conversation.outcome # "None"),
                      ![p].status_code =
                          IF conversation.outcome = "dict" THEN 200 ELSE 500,
                      ![p].error =
                          IF conversation.outcome = "dict" THEN "none" ELSE "generic"]
    /\ pc' = [pc EXCEPT ![p] = "idle"]
    /\ UNCHANGED client
    /\ UNCHANGED <<now, tables, failures, calls, history>>

\* ConversationModel.create_or_get_conversation(user1_id, user2_id), called
\* by the controller: canonicalize the pair; the lookup SELECT is the next step.
Resolve_Start(p, a, b) ==
    /\ MayStart(p)
    /\ LET c == Canonical(a, b)
           call == [NoCall EXCEPT !.op = "resolve", !.status = "running",
                                  !.user1_id = c[1], !.user2_id = c[2]]
       IN  loc' = StartOverlap(p, c[1], c[2], call)
    /\ pc' = [pc EXCEPT ![p] = "lookup"]
    /\ calls' = calls + 1
    /\ UNCHANGED client
    /\ UNCHANGED <<now, tables, failures, history>>

\* MessageModel.create_message: timestamp = utcnow(), message_id = uuid4();
\* with no conversation_id the conversation is resolved first.
CreateMessage_Start(p, s, r, content, cid, mid) ==
    /\ MayStart(p)
    /\ mid \in FreshIds
    /\ LET c == Canonical(s, r)
           call == [NoCall EXCEPT !.op = "send", !.status = "running",
                                  !.sender_id = s, !.receiver_id = r,
                                  !.content = content, !.conversation_id = cid,
                                  !.timestamp = now, !.message_id = mid,
                                  !.retry = IsRetry(s, r, content)]
       IN  IF cid = NULL
           THEN /\ loc' = StartOverlap(p, c[1], c[2],
                              [call EXCEPT !.user1_id = c[1], !.user2_id = c[2]])
                /\ pc' = [pc EXCEPT ![p] = "lookup"]
           ELSE /\ loc' = [loc EXCEPT ![p] = call]
                /\ pc' = [pc EXCEPT ![p] = "ins_msg"]
    /\ calls' = calls + 1
    /\ created_order' = Append(created_order, mid)
    /\ UNCHANGED client
    /\ UNCHANGED <<now, tables, failures, returns>>

\* rows = execute(lookup_query); if rows: return rows[0]["conversation_id"]
Resolve_Lookup(p) ==
    /\ pc[p] = "lookup"
    /\ LET rows == LookupRows(loc[p].user1_id, loc[p].user2_id)
       IN  IF rows # {}
           THEN LET cid == (CHOOSE r \in rows : TRUE).conversation_id
                    IN
                /\ returns' = ResolveReturned([loc[p] EXCEPT !.conversation_id = cid])
                /\ IF loc[p].op = "resolve"
                   THEN /\ loc' = [loc EXCEPT
                                      ![p] = Returned([@ EXCEPT !.conversation_id = cid])]
                        /\ pc' = [pc EXCEPT ![p] = "get_conv"]
                   ELSE /\ loc' = [loc EXCEPT ![p].conversation_id = cid]
                        /\ pc' = [pc EXCEPT ![p] = "ins_msg"]
           ELSE /\ loc' = loc
                /\ pc' = [pc EXCEPT ![p] = "gen_id"]
                /\ returns' = returns
    /\ UNCHANGED client
    /\ UNCHANGED <<now, tables, failures, calls, created_order>>

\* timestamp = utcnow(); conversation_id = int(time.time() * 1000) + ...
Resolve_GenId(p) ==
    /\ pc[p] = "gen_id"
    /\ loc' = [loc EXCEPT ![p].created_at = now,
                          ![p].conversation_id =
                              ConvId(now, loc[p].user1_id, loc[p].user2_id)]
    /\ pc' = [pc EXCEPT ![p] = "ins_lookup"]
    /\ UNCHANGED client
    /\ UNCHANGED <<now, tables, failures, calls, history>>

\* The lookup row as create_or_get_conversation writes it.
WriteLookup(table, u1, u2, cid) ==
    InsertLookup(table, [user1_id |-> u1, user2_id |-> u2, conversation_id |-> cid])

\* execute(insert_lookup, (user1_id, user2_id, conversation_id))
Resolve_InsertLookup(p) ==
    /\ pc[p] = "ins_lookup"
    /\ user_conversations_lookup' =
           WriteLookup(user_conversations_lookup, loc[p].user1_id,
                       loc[p].user2_id, loc[p].conversation_id)
    /\ pc' = [pc EXCEPT ![p] = "ins_meta"]
    /\ UNCHANGED client
    /\ UNCHANGED <<now, messages_by_conversation, conversations_by_user,
                   conversation_metadata, loc, failures, calls, history>>

\* execute(insert_metadata, ...); return conversation_id
Resolve_InsertMetadata(p) ==
    /\ pc[p] = "ins_meta"
    /\ conversation_metadata' =
           InsertMetadata(conversation_metadata, loc[p].conversation_id,
                          loc[p].user1_id, loc[p].user2_id, loc[p].created_at)
    /\ IF loc[p].op = "resolve"
       THEN /\ loc' = [loc EXCEPT ![p] = Returned(@)]
            /\ pc' = [pc EXCEPT ![p] = "get_conv"]
       ELSE /\ loc' = loc
            /\ pc' = [pc EXCEPT ![p] = "ins_msg"]
    /\ returns' = ResolveReturned(loc[p])
    /\ UNCHANGED client
    /\ UNCHANGED <<now, messages_by_conversation, conversations_by_user,
                   user_conversations_lookup, failures, calls, created_order>>

\* The Message row of the call of p.
MessageRow(l) ==
    [conversation_id |-> l.conversation_id, created_at |-> l.timestamp,
     message_id |-> l.message_id, sender_id |-> l.sender_id,
     receiver_id |-> l.receiver_id, content |-> l.content]

\* INSERT INTO messages_by_conversation
CreateMessage_InsertMessage(p) ==
    /\ pc[p] = "ins_msg"
    /\ messages_by_conversation' =
           InsertMessage(messages_by_conversation, MessageRow(loc[p]))
    /\ pc' = [pc EXCEPT ![p] = "ins_cbu_sender"]
    /\ UNCHANGED client
    /\ UNCHANGED <<now, conversations_by_user, conversation_metadata,
                   user_conversations_lookup, loc, failures, calls, history>>

\* A slip: the sender's row is dated with the clock at the time of the write.
SenderSummaryRow_DatedAtWrite(l) ==
    [user_id |-> l.sender_id, last_message_at |-> now,
     conversation_id |-> l.conversation_id, other_user_id |-> l.receiver_id,
     last_message_content |-> l.content]

\* The ConversationSummary row create_message writes for the sender:
\* (sender_id, timestamp, conversation_id, receiver_id, content)
SenderSummaryRow(l) ==
    [user_id |-> l.sender_id, last_message_at |-> l.timestamp,
     conversation_id |-> l.conversation_id, other_user_id |-> l.receiver_id,
     last_message_content |-> l.content]

\* A slip: the receiver's row names the receiver as the other party.
ReceiverSummaryRow_SameUser(l) ==
    [user_id |-> l.receiver_id, last_message_at |-> l.timestamp,
     conversation_id |-> l.conversation_id, other_user_id |-> l.receiver_id,
     last_message_content |-> l.content]

\* The ConversationSummary row create_message writes for the receiver:
\* (receiver_id, timestamp, conversation_id, sender_id, content)
ReceiverSummaryRow(l) ==
    [user_id |-> l.receiver_id, last_message_at |-> l.timestamp,
     conversation_id |-> l.conversation_id, other_user_id |-> l.sender_id,
     last_message_content |-> l.content]

\* execute(update_query, (sender_id, timestamp, conversation_id, receiver_id, content))
CreateMessage_InsertSenderSummary(p) ==
    /\ pc[p] = "ins_cbu_sender"
    /\ conversations_by_user' =
           InsertSummary(conversations_by_user, SenderSummaryRow(loc[p]))
    /\ pc' = [pc EXCEPT ![p] = "ins_cbu_receiver"]
    /\ UNCHANGED client
    /\ UNCHANGED <<now, messages_by_conversation, conversation_metadata,
                   user_conversations_lookup, loc, failures, calls, history>>

\* execute(update_query, (receiver_id, timestamp, conversation_id, sender_id, content))
CreateMessage_InsertReceiverSummary(p) ==
    /\ pc[p] = "ins_cbu_receiver"
    /\ conversations_by_user' =
           InsertSummary(conversations_by_user, ReceiverSummaryRow(loc[p]))
    /\ pc' = [pc EXCEPT ![p] = "upd_meta"]
    /\ UNCHANGED client
    /\ UNCHANGED <<now, messages_by_conversation, conversation_metadata,
                   user_conversations_lookup, loc, failures, calls, history>>

\* execute(metadata_query, (timestamp, content, conversation_id)); return {...}
CreateMessage_UpdateMetadata(p) ==
    /\ pc[p] = "upd_meta"
    /\ conversation_metadata' =
           UpdateMetadata(conversation_metadata, loc[p].conversation_id,
                          loc[p].timestamp, loc[p].content)
    /\ loc' = [loc EXCEPT ![p] = Returned(@)]
    /\ pc' = [pc EXCEPT ![p] = "idle"]
    /\ UNCHANGED client
    /\ UNCHANGED <<now, messages_by_conversation, conversations_by_user,
                   user_conversations_lookup, failures, calls, history>>

\* cassandra_client.execute raises: the exception leaves the call, nothing is
\* rolled back.
StoreSteps == {"lookup", "ins_lookup", "ins_meta", "ins_msg",
               "ins_cbu_sender", "ins_cbu_receiver", "upd_meta", "get_conv"}

\* A slip: the exception is noted and the call goes on with its next step.
Execute_Raises_Swallowed(p) ==
    /\ pc[p] \in StoreSteps
    /\ failures < MaxFailures
    /\ failures' = failures + 1
    /\ loc' = [loc EXCEPT ![p].status = "error", ![p].failed_at = pc[p],
                          ![p].status_code = 500]
    /\ UNCHANGED client
    /\ UNCHANGED <<now, tables, pc, calls, history>>

Execute_Raises(p) ==
    /\ pc[p] \in StoreSteps
    /\ failures < MaxFailures
    /\ failures' = failures + 1
    /\ loc' = [loc EXCEPT ![p] = Raised(@, pc[p])]
    /\ pc' = [pc EXCEPT ![p] = "idle"]
    /\ UNCHANGED client
    /\ UNCHANGED <<now, tables, calls, history>>

Next ==
    \/ Tick
    \/ \E p \in Procs, a \in Users, b \in Users : Resolve_Start(p, a, b)
    \/ \E p \in Procs, s \in Users, r \in Users, c \in Contents,
          cid \in {NULL} \cup KnownConvIds, mid \in MsgIds :
          CreateMessage_Start(p, s, r, c, cid, mid)
    \/ \E p \in Procs : Resolve_Lookup(p)
    \/ \E p \in Procs : Resolve_GenId(p)
    \/ \E p \in Procs : Resolve_InsertLookup(p)
    \/ \E p \in Procs : Resolve_InsertMetadata(p)
    \/ \E p \in Procs : CreateMessage_InsertMessage(p)
    \/ \E p \in Procs : CreateMessage_InsertSenderSummary(p)
    \/ \E p \in Procs : CreateMessage_InsertReceiverSummary(p)
    \/ \E p \in Procs : CreateMessage_UpdateMetadata(p)
    \/ \E p \in Procs : CreateOrGet_GetConversation(p)
    \/ \E p \in Procs : Execute_Raises(p)

Spec == Init /\ [][Next]_vars

\* Sequential use: a call starts only when no call runs.
AllIdle == \A q \in Procs : pc[q] = "idle"

Resolve_StartSeq(p, a, b) == AllIdle /\ Resolve_Start(p, a, b)

CreateMessage_StartSeq(p, s, r, content, cid, mid) ==
    AllIdle /\ CreateMessage_Start(p, s, r, content, cid, mid)

NextSeq ==
    \/ Tick
    \/ \E p \in Procs, a \in Users, b \in Users : Resolve_StartSeq(p, a, b)
    \/ \E p \in Procs, s \in Users, r \in Users, c \in Contents,
          cid \in {NULL} \cup KnownConvIds, mid \in MsgIds :
          CreateMessage_StartSeq(p, s, r, c, cid, mid)
    \/ \E p \in Procs : Resolve_Lookup(p)
    \/ \E p \in Procs : Resolve_GenId(p)
    \/ \E p \in Procs : Resolve_InsertLookup(p)
    \/ \E p \in Procs : Resolve_InsertMetadata(p)
    \/ \E p \in Procs : CreateMessage_InsertMessage(p)
    \/ \E p \in Procs : CreateMessage_InsertSenderSummary(p)
    \/ \E p \in Procs : CreateMessage_InsertReceiverSummary(p)
    \/ \E p \in Procs : CreateMessage_UpdateMetadata(p)
    \/ \E p \in Procs : CreateOrGet_GetConversation(p)
    \/ \E p \in Procs : Execute_Raises(p)

SpecSeq == Init /\ [][NextSeq]_vars

\* ------------------------------------------------- the storage gateway
\* CassandraClient(): __new__ creates the instance when there is none and
\* marks it uninitialized, __init__ returns at once when _initialized is set
\* and otherwise clears cluster and session.
Construct(t) ==
    /\ tpc[t] = "idle"
    /\ uses < MaxUses
    /\ uses' = uses + 1
    /\ instance' = IF instance = NULL THEN 1 ELSE instance
    /\ LET marked == IF instance = NULL THEN FALSE ELSE initialized
       IN  IF marked
           THEN UNCHANGED <<cluster, session, initialized>>
           ELSE cluster' = NULL /\ session' = NULL /\ initialized' = TRUE
    /\ UNCHANGED <<clusters, connections, tpc, tcall, attempt, obtained>>
    /\ UNCHANGED service

\* A thread enters execute, execute_async or get_session.
Use_Start(t, method) ==
    /\ tpc[t] = "idle"
    /\ uses < MaxUses
    /\ uses' = uses + 1
    /\ tpc' = [tpc EXCEPT ![t] = "check"]
    /\ tcall' = [tcall EXCEPT ![t] = method]
    /\ UNCHANGED <<instance, initialized, cluster, session, clusters,
                   connections, attempt, obtained>>
    /\ UNCHANGED service

\* connect(retries, delay) is entered: for attempt in range(1, retries + 1).
\* With retries < 1 the loop body never runs and the method returns.
EnterConnect(retries, direct) ==
    IF retries >= 1
    THEN [n |-> 1, retries |-> retries, sleeps |-> 0, outcome |-> "running",
          direct |-> direct]
    ELSE [n |-> 0, retries |-> retries, sleeps |-> 0, outcome |-> "returned",
          direct |-> direct]

\* if not self.session: self.connect()   -- with the default `retries`
Use_Check(t) ==
    /\ tpc[t] = "check"
    /\ IF session = NULL
       THEN /\ tpc' = [tpc EXCEPT ![t] = "connect_cluster"]
            /\ attempt' = [attempt EXCEPT ![t] = EnterConnect(MaxRetries, FALSE)]
       ELSE /\ tpc' = [tpc EXCEPT ![t] = "use"]
            /\ attempt' = attempt
    /\ UNCHANGED <<instance, initialized, cluster, session, clusters,
                   connections, tcall, obtained, uses>>
    /\ UNCHANGED service

\* A thread calls connect(retries, delay) itself.
Connect_Call(t, retries) ==
    /\ tpc[t] = "idle"
    /\ uses < MaxUses
    /\ uses' = uses + 1
    /\ attempt' = [attempt EXCEPT ![t] = EnterConnect(retries, TRUE)]
    /\ IF retries >= 1
       THEN /\ tpc' = [tpc EXCEPT ![t] = "connect_cluster"]
            /\ tcall' = [tcall EXCEPT ![t] = "connect"]
       ELSE UNCHANGED <<tpc, tcall>>
    /\ UNCHANGED <<instance, initialized, cluster, session, clusters,
                   connections, obtained>>
    /\ UNCHANGED service

\* connect(): self.cluster = Cluster([self.host])
Connect_Cluster(t) ==
    /\ tpc[t] = "connect_cluster"
    /\ clusters' = clusters + 1
    /\ cluster' = clusters + 1
    /\ tpc' = [tpc EXCEPT ![t] = "connect_session"]
    /\ UNCHANGED <<instance, initialized, session, connections, tcall,
                   attempt, obtained, uses>>
    /\ UNCHANGED service

\* connect(): self.session = self.cluster.connect(self.keyspace); return
Connect_Session(t) ==
    /\ tpc[t] = "connect_session"
    /\ connections' = connections + 1
    /\ session' = connections + 1
    /\ attempt' = [attempt EXCEPT ![t].outcome = "returned"]
    /\ IF tcall[t] = "connect"
       THEN /\ tpc' = [tpc EXCEPT ![t] = "idle"]
            /\ tcall' = [tcall EXCEPT ![t] = "none"]
       ELSE /\ tpc' = [tpc EXCEPT ![t] = "use"]
            /\ tcall' = tcall
    /\ UNCHANGED <<instance, initialized, cluster, clusters, obtained, uses>>
    /\ UNCHANGED service

\* A slip: the loop goes on while attempt <= retries.
Connect_Fails_OneMore(t) ==
    /\ tpc[t] \in {"connect_cluster", "connect_session"}
    /\ IF attempt[t].n <= attempt[t].retries
       THEN /\ attempt' = [attempt EXCEPT ![t].n = @ + 1, ![t].sleeps = @ + 1]
            /\ tpc' = [tpc EXCEPT ![t] = "connect_cluster"]
            /\ tcall' = tcall
       ELSE /\ attempt' = [attempt EXCEPT ![t].outcome = "raised"]
            /\ tpc' = [tpc EXCEPT ![t] = "idle"]
            /\ tcall' = [tcall EXCEPT ![t] = "none"]
    /\ UNCHANGED <<instance, initialized, cluster, session, clusters,
                   connections, obtained, uses>>
    /\ UNCHANGED service

\* connect(): an attempt raises; if attempt < retries the loop sleeps `delay`
\* and tries again with a new Cluster, else the exception leaves the method.
Connect_Fails(t) ==
    /\ tpc[t] \in {"connect_cluster", "connect_session"}
    /\ IF attempt[t].n < attempt[t].retries
       THEN /\ attempt' = [attempt EXCEPT ![t].n = @ + 1, ![t].sleeps = @ + 1]
            /\ tpc' = [tpc EXCEPT ![t] = "connect_cluster"]
            /\ tcall' = tcall
       ELSE /\ attempt' = [attempt EXCEPT ![t].outcome = "raised"]
            /\ tpc' = [tpc EXCEPT ![t] = "idle"]
            /\ tcall' = [tcall EXCEPT ![t] = "none"]
    /\ UNCHANGED <<instance, initialized, cluster, session, clusters,
                   connections, obtained, uses>>
    /\ UNCHANGED service

\* self.session.execute(...), self.session.execute_async(...), return self.session
Use_Session(t) ==
    /\ tpc[t] = "use"
    /\ obtained' = [obtained EXCEPT ![t] = session]
    /\ tpc' = [tpc EXCEPT ![t] = "idle"]
    /\ tcall' = [tcall EXCEPT ![t] = "none"]
    /\ UNCHANGED <<instance, initialized, cluster, session, clusters,
                   connections, attempt, uses>>
    /\ UNCHANGED service

Methods == {"execute", "execute_async", "get_session"}

NextClient ==
    \/ \E t \in Threads : Construct(t)
    \/ \E t \in Threads, method \in Methods : Use_Start(t, method)
    \/ \E t \in Threads : Use_Check(t)
    \/ \E t \in Threads, retries \in 0..MaxRetries : Connect_Call(t, retries)
    \/ \E t \in Threads : Connect_Cluster(t)
    \/ \E t \in Threads : Connect_Session(t)
    \/ \E t \in Threads : Connect_Fails(t)
    \/ \E t \in Threads : Use_Session(t)

SpecClient == Init /\ [][NextClient]_vars

\* A thread that is inside a method goes on: the calls it makes to the
\* driver and to time.sleep return or raise.
ThreadRuns(t) ==
    Use_Check(t) \/ Connect_Cluster(t) \/ Connect_Session(t) \/ Use_Session(t)

FairSpecClient == SpecClient /\ \A t \in Threads : WF_vars(ThreadRuns(t))

\* ------------------------------------------------------------ read paths
\* A slip: the clustering order ascends.
MessageBefore_Ascending(a, b) ==
    \/ a.created_at < b.created_at
    \/ a.created_at = b.created_at /\ a.message_id < b.message_id

\* CLUSTERING ORDER BY (created_at DESC, message_id DESC)
MessageBefore(a, b) ==
    \/ a.created_at > b.created_at
    \/ a.created_at = b.created_at /\ a.message_id > b.message_id

\* A slip: the clustering order ascends.
SummaryBefore_Ascending(a, b) ==
    \/ a.last_message_at < b.last_message_at
    \/ a.last_message_at = b.last_message_at /\ a.conversation_id < b.conversation_id

\* CLUSTERING ORDER BY (last_message_at DESC, conversation_id DESC)
SummaryBefore(a, b) ==
    \/ a.last_message_at > b.last_message_at
    \/ a.last_message_at = b.last_message_at /\ a.conversation_id > b.conversation_id

\* The rows of one partition of messages_by_conversation, in clustering order.
RECURSIVE MessagesInOrder(_)
MessagesInOrder(S) ==
    IF S = {} THEN <<>>
    ELSE LET first == CHOOSE x \in S : \A y \in S \ {x} : MessageBefore(x, y)
         IN  <<first>> \o MessagesInOrder(S \ {first})

\* The rows of one partition of conversations_by_user, in clustering order.
RECURSIVE SummariesInOrder(_)
SummariesInOrder(S) ==
    IF S = {} THEN <<>>
    ELSE LET first == CHOOSE x \in S : \A y \in S \ {x} : SummaryBefore(x, y)
         IN  <<first>> \o SummariesInOrder(S \ {first})

\* LIMIT n
Limit(rows, n) == SubSeq(rows, 1, IF n < Len(rows) THEN n ELSE Len(rows))

\* list(rows)[offset:]
SliceFrom(rows, offset) == SubSeq(rows, offset + 1, Len(rows))

\* The dictionary the model layer returns for a Message row.
MessageDict(row) ==
    [message_id |-> row.message_id, conversation_id |-> row.conversation_id,
     sender_id |-> row.sender_id, receiver_id |-> row.receiver_id,
     content |-> row.content, timestamp |-> row.created_at]

Dicts(rows) == [i \in 1..Len(rows) |-> MessageDict(rows[i])]

\* SELECT * FROM messages_by_conversation WHERE conversation_id = %s LIMIT %s
SelectMessages(cid, n) ==
    Limit(MessagesInOrder({r \in messages_by_conversation : r.conversation_id = cid}), n)

\* A slip: the rows fetched for the earlier pages are not dropped.
get_conversation_messages_NoSlice(cid, limit, offset) ==
    Dicts(SelectMessages(cid, limit + offset))

\* MessageModel.get_conversation_messages(conversation_id, limit, offset)
get_conversation_messages(cid, limit, offset) ==
    LET rows == SelectMessages(cid, limit + offset)
        page == IF offset > 0 THEN SliceFrom(rows, offset) ELSE rows
    IN  Dicts(page)

\* A slip: created_at <= %s.
SelectMessagesBefore_Inclusive(cid, before_timestamp, n) ==
    Limit(MessagesInOrder({r \in messages_by_conversation :
                              /\ r.conversation_id = cid
                              /\ r.created_at <= before_timestamp}), n)

\* SELECT ... WHERE conversation_id = %s AND created_at < %s LIMIT %s
SelectMessagesBefore(cid, before_timestamp, n) ==
    Limit(MessagesInOrder({r \in messages_by_conversation :
                              /\ r.conversation_id = cid
                              /\ r.created_at < before_timestamp}), n)

\* MessageModel.get_messages_before_timestamp(conversation_id, before_timestamp, limit)
get_messages_before_timestamp(cid, before_timestamp, limit) ==
    Dicts(SelectMessagesBefore(cid, before_timestamp, limit))

\* A slip: has_more = len(messages) > limit.
Controller_get_conversation_messages_NeverMore(cid, page, limit) ==
    LET offset == (page - 1) * limit
        msgs == get_conversation_messages(cid, limit, offset)
    IN  [messages |-> msgs, has_more |-> (Len(msgs) > limit)]

\* MessageController.get_conversation_messages(conversation_id, page, limit)
Controller_get_conversation_messages(cid, page, limit) ==
    LET offset == (page - 1) * limit
        msgs == get_conversation_messages(cid, limit, offset)
    IN  [messages |-> msgs, has_more |-> (Len(msgs) = limit)]

\* MessageController.get_messages_before_timestamp(conversation_id, before_timestamp, page, limit)
Controller_get_messages_before_timestamp(cid, before_timestamp, page, limit) ==
    LET msgs == get_messages_before_timestamp(cid, before_timestamp, limit)
    IN  [messages |-> msgs, has_more |-> (Len(msgs) = limit)]

\* The dictionary the model layer returns for a ConversationSummary row.
ConversationDict(row) ==
    [conversation_id |-> row.conversation_id, other_user_id |-> row.other_user_id,
     last_updated |-> row.last_message_at, last_message |-> row.last_message_content]

\* ConversationModel.get_user_conversations(user_id, limit)
get_user_conversations(user_id, limit) ==
    LET rows == Limit(SummariesInOrder({r \in conversations_by_user :
                                           r.user_id = user_id}), limit)
        conversations == [i \in 1..Len(rows) |-> ConversationDict(rows[i])]
    IN  [conversations |-> conversations, has_more |-> (Len(conversations) = limit)]

\* ----------------------------------------------------- shared vocabulary
Range(f) == {f[i] : i \in DOMAIN f}

Pairs == {c \in Users \X Users : c[1] <= c[2]}

\* The conversation_metadata rows whose participants are the unordered pair c.
MetadataOf(c) ==
    {r \in conversation_metadata : {r.user1_id, r.user2_id} = {c[1], c[2]}}

\* Some resolve of the unordered pair c has returned.
ResolvedOnce(c) == \E r \in returns : {r[1], r[2]} = {c[1], c[2]}

\* A call is resolving the unordered pair c.
ResolveRuns(c) ==
    \E p \in Procs : /\ pc[p] \in {"lookup", "gen_id", "ins_lookup", "ins_meta"}
                     /\ {loc[p].user1_id, loc[p].user2_id} = {c[1], c[2]}

\* ------------------------------------------------------------------ C1
\* C1: in every run in which no store call raised, conversation_metadata
\* holds at most one row per unordered user pair, and exactly one once a
\* resolve of that pair has returned and none is running.
C1_OneConversationPerPair ==
    failures = 0 =>
        \A c \in Pairs :
            /\ Cardinality(MetadataOf(c)) <= 1
            /\ (ResolvedOnce(c) /\ ~ResolveRuns(c))
                   => Cardinality(MetadataOf(c)) = 1

\* ------------------------------------------------------------------ C2
\* The calls of p and q have returned, resolved the same pair and overlapped.
ConcurrentResolves(p, q) ==
    /\ p # q
    /\ loc[p].status = "ok" /\ loc[q].status = "ok"
    /\ loc[p].user1_id # NULL
    /\ {loc[p].user1_id, loc[p].user2_id} = {loc[q].user1_id, loc[q].user2_id}
    /\ q \in loc[p].overlap

\* C2: two create_or_get_conversation calls for the same unordered pair that
\* ran concurrently have returned the same conversation_id.
C2_ConcurrentSameId ==
    \A p \in Procs, q \in Procs :
        ConcurrentResolves(p, q) => loc[p].conversation_id = loc[q].conversation_id

\* ------------------------------------------------------------------ C3
\* A call is creating a conversation for the unordered pair c.
Creating(c) ==
    \E p \in Procs : /\ pc[p] \in {"gen_id", "ins_lookup", "ins_meta"}
                     /\ {loc[p].user1_id, loc[p].user2_id} = {c[1], c[2]}

\* C3: under sequential use, all resolves of one unordered pair that have
\* returned, in either argument order, returned one id, and once a resolve of
\* the pair has returned no later call creates a conversation for it.
C3_SequentialSameId ==
    /\ \A r1 \in returns, r2 \in returns :
           {r1[1], r1[2]} = {r2[1], r2[2]} => r1[3] = r2[3]
    /\ \A c \in Pairs : ResolvedOnce(c) => ~Creating(c)

\* Two resolves of one pair have returned one id: the first inside a send
\* from the greater to the smaller user id, the second a resolve that found
\* the lookup row.
C3_Witness ==
    /\ AllIdle
    /\ \E p \in Procs, q \in Procs :
           /\ loc[p].status = "ok" /\ loc[p].op = "send"
           /\ loc[p].sender_id > loc[p].receiver_id
           /\ loc[q].status = "ok" /\ loc[q].op = "resolve"
           /\ {loc[q].user1_id, loc[q].user2_id}
                  = {loc[p].sender_id, loc[p].receiver_id}
           /\ loc[q].conversation_id = loc[p].conversation_id
           /\ \E m \in messages_by_conversation :
                  m.conversation_id = loc[q].conversation_id

\* ------------------------------------------------------------------ C4
\* A limit large enough to hold all rows.
AllRows ==
    Cardinality(messages_by_conversation) + Cardinality(conversations_by_user) + 1

\* The create_message call of p returns successfully in this step.
SendReturns(p) ==
    pc[p] = "upd_meta" /\ pc'[p] = "idle" /\ loc'[p].status = "ok"

\* The message of the call l is in get_conversation_messages(l.conversation_id).
MessageListed(l) ==
    \E d \in Range(get_conversation_messages(l.conversation_id, AllRows, 0)) :
        /\ d.message_id = l.message_id
        /\ d.sender_id = l.sender_id /\ d.receiver_id = l.receiver_id
        /\ d.content = l.content

\* get_user_conversations(user) has an entry for the conversation of the call
\* l that names `other` and previews the content of l.
SummaryListed(user, other, l) ==
    \E e \in Range(get_user_conversations(user, AllRows).conversations) :
        /\ e.conversation_id = l.conversation_id
        /\ e.other_user_id = other
        /\ e.last_message = l.content

\* get_user_conversations(user) has an entry for the conversation of the call
\* l, dated with the timestamp of l.
SummaryDated(user, l) ==
    \E e \in Range(get_user_conversations(user, AllRows).conversations) :
        e.conversation_id = l.conversation_id /\ e.last_updated = l.timestamp

FanoutVisible(l) ==
    /\ MessageListed(l)
    /\ SummaryListed(l.sender_id, l.receiver_id, l)
    /\ SummaryListed(l.receiver_id, l.sender_id, l)

\* No other Message row has the conversation and the created_at of the call l.
NoTwin(l) ==
    \A m \in messages_by_conversation :
        (m.conversation_id = l.conversation_id /\ m.created_at = l.timestamp)
            => m.message_id = l.message_id

\* C4 as claimed: when create_message(A, B, content) returns conversation C,
\* the message is in get_conversation_messages(C), and get_user_conversations
\* of A and of B each hold an entry for C that names the other party and has
\* last_message = content.
C4_FanoutComplete ==
    [][\A p \in Procs : SendReturns(p) => FanoutVisible(loc[p])']_vars

\* The create_message call of p has returned successfully; loc[p] holds its
\* arguments and its result until p makes its next call.
SendReturned(p) == loc[p].op = "send" /\ loc[p].status = "ok"

\* C4 as amended: after create_message has returned, the message is listed
\* and both users have an entry for C dated with the message's timestamp; the
\* entries name the other party and preview the content for as long as no
\* other message of C has the same created_at.
C4_FanoutCompleteUnlessTwin ==
    \A p \in Procs :
        SendReturned(p) =>
            /\ MessageListed(loc[p])
            /\ SummaryDated(loc[p].sender_id, loc[p])
            /\ SummaryDated(loc[p].receiver_id, loc[p])
            /\ NoTwin(loc[p]) => FanoutVisible(loc[p])

\* A send between two different users has returned after an earlier message
\* of the same conversation, and its fanout is visible.
C4_Witness ==
    \E p \in Procs :
        /\ SendReturned(p)
        /\ loc[p].sender_id # loc[p].receiver_id
        /\ NoTwin(loc[p])
        /\ FanoutVisible(loc[p])
        /\ \E m \in messages_by_conversation :
               /\ m.conversation_id = loc[p].conversation_id
               /\ m.created_at < loc[p].timestamp

\* ------------------------------------------------------------------ C5
ConversationsWithMessages == {m.conversation_id : m \in messages_by_conversation}

MessagesOf(cid) == {m \in messages_by_conversation : m.conversation_id = cid}

\* The users who sent or received a message of the conversation.
Parties(cid) == UNION {{m.sender_id, m.receiver_id} : m \in MessagesOf(cid)}

SummariesOf(u, cid) ==
    {r \in conversations_by_user : r.user_id = u /\ r.conversation_id = cid}

\* C5: when no call runs and no store call raised, each conversation with a
\* message has one ConversationSummary row under each of its parties and none
\* under other users, however many messages were sent.
C5_OneSummaryPerParty ==
    (AllIdle /\ failures = 0) =>
        \A cid \in ConversationsWithMessages, u \in Users :
            Cardinality(SummariesOf(u, cid)) = IF u \in Parties(cid) THEN 1 ELSE 0

\* ------------------------------------------------------------------ C6
\* Every message of the conversation is between the participants its
\* conversation_metadata row names.
BetweenParticipants(cid) ==
    \A m \in MessagesOf(cid) :
        \E r \in conversation_metadata :
            /\ r.conversation_id = cid
            /\ {r.user1_id, r.user2_id} = {m.sender_id, m.receiver_id}

LatestCreatedAt(cid) ==
    CHOOSE t \in {m.created_at : m \in MessagesOf(cid)} :
        \A m \in MessagesOf(cid) : m.created_at <= t

\* The metadata row r carries the last-message fields of a message with the
\* greatest created_at, and so does the most recent summary row of each party.
InSync(cid, r) ==
    /\ r.last_message_at = LatestCreatedAt(cid)
    /\ \E m \in MessagesOf(cid) :
           m.created_at = r.last_message_at /\ m.content = r.last_message_content
    /\ \A u \in Parties(cid) :
           /\ SummariesOf(u, cid) # {}
           /\ LET top == SummariesInOrder(SummariesOf(u, cid))[1]
              IN  /\ top.last_message_at = r.last_message_at
                  /\ top.last_message_content = r.last_message_content

\* C6: once every call has returned, in a run of sends only in which no store
\* call raised, the conversation_metadata row of each conversation carries the
\* last-message fields of its message with the greatest created_at, equal to
\* those of the most recent summary row under each participant.
C6_LastMessageInSync ==
    (AllIdle /\ failures = 0 /\ Len(created_order) = calls) =>
        \A cid \in ConversationsWithMessages :
            BetweenParticipants(cid) =>
                \E r \in conversation_metadata :
                    r.conversation_id = cid /\ InSync(cid, r)

\* ------------------------------------------------------------------ C7
\* The conversation ids a reader can ask for.
ReadableConvIds == ConversationsWithMessages \cup KnownConvIds

Limits == 1..MaxLimit
Pages == 1..MaxPage
BeforeTimes == 1..(MaxTime + 1)

\* The page holds at most limit messages, and has_more says it holds limit.
WithinLimit(r, limit) ==
    /\ Len(r.messages) <= limit
    /\ r.has_more <=> (Len(r.messages) = limit)

\* C7: for every limit >= 1 and page >= 1 both message listings return at
\* most limit messages, with has_more true exactly when they return limit.
C7_PageBound ==
    \A cid \in ReadableConvIds, limit \in Limits, page \in Pages :
        /\ WithinLimit(Controller_get_conversation_messages(cid, page, limit), limit)
        /\ \A t \in BeforeTimes :
               WithinLimit(Controller_get_messages_before_timestamp(cid, t, page, limit),
                           limit)

\* A second page of one message is full, fetched from a conversation of two
\* messages, and a listing before a timestamp is full as well.
C7_Witness ==
    \E cid \in ReadableConvIds, t \in BeforeTimes :
        /\ Cardinality(MessagesOf(cid)) = 2
        /\ Controller_get_conversation_messages(cid, 2, 1).has_more
        /\ Len(Controller_get_conversation_messages(cid, 2, 1).messages) = 1
        /\ ~Controller_get_conversation_messages(cid, 2, 2).has_more
        /\ Controller_get_messages_before_timestamp(cid, t, 1, 1).has_more

\* ------------------------------------------------------------------ C8
\* The position of a message id in the order of the create_message calls.
SendPosition(mid) == CHOOSE i \in 1..Len(created_order) : created_order[i] = mid

AllOffsets == 0..((MaxPage - 1) * MaxLimit)

\* C8 as claimed: of two messages in a result of get_conversation_messages,
\* the one whose create_message call came first is listed after the other.
C8_SentOrder ==
    \A cid \in ReadableConvIds, limit \in Limits, offset \in AllOffsets :
        LET msgs == get_conversation_messages(cid, limit, offset)
        IN  \A i \in DOMAIN msgs, j \in DOMAIN msgs :
                SendPosition(msgs[i].message_id) < SendPosition(msgs[j].message_id)
                    => i > j

\* C8 as amended: of two messages in a result of get_conversation_messages
\* with different stored created_at, the one with the smaller created_at is
\* listed after the other.
C8_CreatedAtOrder ==
    \A cid \in ReadableConvIds, limit \in Limits, offset \in AllOffsets :
        LET msgs == get_conversation_messages(cid, limit, offset)
        IN  \A i \in DOMAIN msgs, j \in DOMAIN msgs :
                msgs[i].timestamp < msgs[j].timestamp => i > j

\* A result lists two messages of different created_at, the one with the
\* greater message id being the older.
C8_Witness ==
    \E cid \in ReadableConvIds :
        LET msgs == get_conversation_messages(cid, 2, 0)
        IN  /\ Len(msgs) = 2
            /\ msgs[2].timestamp < msgs[1].timestamp
            /\ msgs[2].message_id > msgs[1].message_id

\* ------------------------------------------------------------------ C9
\* C9: get_messages_before_timestamp returns only messages of the asked
\* conversation with created_at strictly below the timestamp, most recent
\* first.
C9_StrictlyBefore ==
    \A cid \in ReadableConvIds, t \in BeforeTimes, limit \in Limits :
        LET msgs == get_messages_before_timestamp(cid, t, limit)
        IN  \A i \in DOMAIN msgs :
                /\ msgs[i].conversation_id = cid
                /\ msgs[i].timestamp < t
                /\ \A j \in DOMAIN msgs : i < j => msgs[i].timestamp >= msgs[j].timestamp

\* A conversation holds a message created at t and an older one; the listing
\* before t returns the older one alone.
C9_Witness ==
    \E cid \in ReadableConvIds, t \in BeforeTimes :
        /\ \E m \in MessagesOf(cid) : m.created_at = t
        /\ Len(get_messages_before_timestamp(cid, t, 2)) = 1
        /\ Cardinality(MessagesOf(cid)) = 2

\* ----------------------------------------------------------------- C10
\* The messages of a page of the conversation.
Page(cid, page, limit) == Controller_get_conversation_messages(cid, page, limit).messages

PageIds(cid, page, limit) ==
    {Page(cid, page, limit)[i].message_id : i \in DOMAIN Page(cid, page, limit)}

\* The row m sorts before the listed message d: it is more recent.
SortsBefore(m, d) ==
    MessageBefore(m, [created_at |-> d.timestamp, message_id |-> d.message_id])

\* C10: page 1 is requested, one step is taken (a message may be stored), page
\* 2 is requested: no message of page 1 is on page 2, and no message that
\* existed at the first request is left out before a message of page 2.
C10_PagesContinue ==
    [][\A cid \in ReadableConvIds, limit \in Limits :
          /\ PageIds(cid, 1, limit) \cap PageIds(cid, 2, limit)' = {}
          /\ \A m \in MessagesOf(cid) :
                 (m.message_id \notin PageIds(cid, 1, limit) \cup PageIds(cid, 2, limit)')
                     => \A d \in Range(Page(cid, 2, limit)') : ~SortsBefore(m, d)
      ]_vars

\* ----------------------------------------------------------------- C11
\* C11: for every user and limit, get_user_conversations returns at most
\* limit entries, each the dictionary of a ConversationSummary row of that
\* user, in descending order of last_message_at, with has_more true exactly
\* when limit entries are returned.
C11_ConversationPage ==
    \A u \in Users, limit \in Limits :
        LET r == get_user_conversations(u, limit)
            c == r.conversations
        IN  /\ Len(c) <= limit
            /\ r.has_more <=> (Len(c) = limit)
            /\ \A i \in DOMAIN c :
                   /\ \E row \in conversations_by_user :
                          row.user_id = u /\ ConversationDict(row) = c[i]
                   /\ \A j \in DOMAIN c :
                          i < j => c[i].last_updated >= c[j].last_updated

\* A user has two summary rows of different last_message_at and another user
\* has rows too: a page of one is full and holds the most recent row, and a
\* page of two holds both.
C11_Witness ==
    \E u \in Users, v \in Users :
        /\ u # v
        /\ \E row \in conversations_by_user : row.user_id = v
        /\ Cardinality({row \in conversations_by_user : row.user_id = u}) = 2
        /\ get_user_conversations(u, 1).has_more
        /\ LET c == get_user_conversations(u, 2).conversations
           IN  /\ Len(c) = 2
               /\ c[1].last_updated > c[2].last_updated
               /\ get_user_conversations(u, 1).conversations = <<c[1]>>

\* ----------------------------------------------------------------- C12
\* C12: the conversation ids allocated to different canonical pairs are
\* different: no two user_conversations_lookup rows of different pairs carry
\* one conversation_id, whatever the times at which they were created.
C12_IdsUnique ==
    \A r1 \in user_conversations_lookup, r2 \in user_conversations_lookup :
        LookupKey(r1) # LookupKey(r2) => r1.conversation_id # r2.conversation_id

\* ----------------------------------------------------------------- C13
\* The conversation_metadata row the lookup row l points to, with the pair of l.
PointsTo(l, r) ==
    /\ r.conversation_id = l.conversation_id
    /\ r.user1_id = l.user1_id /\ r.user2_id = l.user2_id

\* C13: in every reachable state each user_conversations_lookup row points to
\* a conversation_metadata row with the same participant pair, and each
\* conversation_metadata row is pointed to by exactly one lookup row.
C13_LookupOneToOne ==
    /\ \A l \in user_conversations_lookup :
           \E r \in conversation_metadata : PointsTo(l, r)
    /\ \A r \in conversation_metadata :
           Cardinality({l \in user_conversations_lookup :
                           l.conversation_id = r.conversation_id}) = 1

\* ----------------------------------------------------------------- C14
Min(a, b) == IF a < b THEN a ELSE b
Max(a, b) == IF a < b THEN b ELSE a

\* C14 as claimed: every row of user_conversations_lookup, and every
\* conversation_metadata row that names its participants, has
\* user1_id < user2_id strictly.
C14_StrictlyOrdered ==
    /\ \A l \in user_conversations_lookup : l.user1_id < l.user2_id
    /\ \A r \in conversation_metadata :
           r.user1_id # NULL => r.user1_id < r.user2_id

\* C14 as amended: the pair a resolve works with is (min, max) of its input
\* ids, its rows are written under that pair, and every row has
\* user1_id <= user2_id, strictly when the two input ids differ.
C14_CanonicalRows ==
    /\ \A l \in user_conversations_lookup : l.user1_id <= l.user2_id
    /\ \A r \in conversation_metadata :
           r.user1_id # NULL => r.user1_id <= r.user2_id
    /\ \A p \in Procs :
           (loc[p].op = "send" /\ loc[p].user1_id # NULL) =>
               /\ loc[p].user1_id = Min(loc[p].sender_id, loc[p].receiver_id)
               /\ loc[p].user2_id = Max(loc[p].sender_id, loc[p].receiver_id)
               /\ loc[p].sender_id # loc[p].receiver_id
                      => loc[p].user1_id < loc[p].user2_id
               /\ pc[p] = "ins_meta" =>
                      \E l \in user_conversations_lookup :
                          LookupKey(l) = <<loc[p].user1_id, loc[p].user2_id>>

\* A send from the greater to the smaller user id has created its
\* conversation: both rows name the receiver first.
C14_Witness ==
    \E p \in Procs :
        /\ loc[p].op = "send" /\ loc[p].sender_id > loc[p].receiver_id
        /\ \E l \in user_conversations_lookup, r \in conversation_metadata :
               /\ l.conversation_id = loc[p].conversation_id
               /\ l.user1_id = loc[p].receiver_id /\ l.user2_id = loc[p].sender_id
               /\ r.created_at # NULL
               /\ PointsTo(l, r)

\* ----------------------------------------------------------------- C15
\* The rows a step adds to messages_by_conversation.
NewMessages == messages_by_conversation' \ messages_by_conversation

\* C15: no step changes or removes a row of messages_by_conversation, a step
\* adds at most one row, with a message_id no other row has, and the row of
\* every send that has returned is in the table as the send wrote it.
C15_MessagesImmutable ==
    /\ [][/\ messages_by_conversation \subseteq messages_by_conversation'
          /\ Cardinality(NewMessages) <= 1
          /\ \A m \in NewMessages, r \in messages_by_conversation :
                 r.message_id # m.message_id]_vars
    /\ [](\A p \in Procs :
              SendReturned(p) =>
                  {r \in messages_by_conversation :
                      r.message_id = loc[p].message_id} = {MessageRow(loc[p])})

\* Two sends have returned with one conversation_id and one created_at: both
\* rows are in the table.
C15_Witness ==
    \E p \in Procs, q \in Procs :
        /\ p # q
        /\ SendReturned(p) /\ SendReturned(q)
        /\ loc[p].conversation_id = loc[q].conversation_id
        /\ loc[p].timestamp = loc[q].timestamp
        /\ {MessageRow(loc[p]), MessageRow(loc[q])} \subseteq messages_by_conversation

\* ----------------------------------------------------------------- C16
\* The lookup row l and the Conversation row r it points to both exist, r as
\* create_or_get_conversation wrote it.
Established(l, r) ==
    /\ l \in user_conversations_lookup
    /\ r \in conversation_metadata
    /\ r.created_at # NULL
    /\ PointsTo(l, r)

\* C16: once a Conversation row and its lookup row exist, no step changes the
\* conversation_id of the lookup row or the user1_id, user2_id or created_at
\* of the Conversation row, and none removes either row.
C16_IdentityFrozen ==
    [][\A l \in user_conversations_lookup, r \in conversation_metadata :
           Established(l, r) =>
               /\ l \in user_conversations_lookup'
               /\ \E r2 \in conversation_metadata' :
                      /\ r2.conversation_id = r.conversation_id
                      /\ r2.user1_id = r.user1_id /\ r2.user2_id = r.user2_id
                      /\ r2.created_at = r.created_at]_vars

\* ----------------------------------------------------------------- C17
\* The controller's create_or_get_conversation has answered after its read of
\* the Conversation row found nothing.
NotFoundAfterResolve(p) ==
    loc[p].op = "resolve" /\ loc[p].reads > 0 /\ ~loc[p].found

\* C17: when the read that follows the resolve finds no Conversation row, the
\* read is repeated before a failure is answered, and the failure is a
\* transient-storage error.
C17_NotFoundRetried ==
    \A p \in Procs :
        NotFoundAfterResolve(p) =>
            /\ loc[p].reads > 1
            /\ loc[p].error = "transient-storage"

\* ----------------------------------------------------------------- C18
\* The conversation ids a caller can ask for: those the id formula yields.
AskedConvIds == {ConvId(t, c[1], c[2]) : t \in 1..MaxTime, c \in Pairs}

\* C18: get_conversation(id) is None, and the controller answers 404, exactly
\* when conversation_metadata has no row of that id; for an existing row the
\* result is its id, its participants, its created_at, and as last_updated
\* its last_message_at if set, else its created_at, answered with 200.
C18_GetConversation ==
    \A cid \in AskedConvIds :
        LET rows == {r \in conversation_metadata : r.conversation_id = cid}
            result == get_conversation(cid)
        IN  /\ (result.outcome = "None") <=> (rows = {})
            /\ (Controller_get_conversation(cid) = 404) <=> (rows = {})
            /\ \A row \in rows :
                   /\ result.outcome = "dict"
                   /\ Controller_get_conversation(cid) = 200
                   /\ result.conversation_id = row.conversation_id
                   /\ result.participant_ids = <<row.user1_id, row.user2_id>>
                   /\ result.created_at = isoformat(row.created_at)
                   /\ result.last_updated =
                          IF row.last_message_at # NULL
                          THEN isoformat(row.last_message_at)
                          ELSE isoformat(row.created_at)

\* ----------------------------------------------------------------- C19
\* C19: whatever the interleaving of first uses, with connect() called by
\* them alone, the process opens at most one connection, the instance stays
\* the one created at import and stays initialized, and every thread works
\* with the one session.
C19_ConnectsOnce ==
    (\A t \in Threads : ~attempt[t].direct) =>
        /\ connections <= 1
        /\ instance = 1 /\ initialized
        /\ \A t \in Threads : obtained[t] \in {NULL, 1}

\* ----------------------------------------------------------------- C20
\* A row of messages_by_conversation has this conversation, created_at and
\* content.
MessageLogged(cid, ts, content) ==
    \E m \in messages_by_conversation :
        m.conversation_id = cid /\ m.created_at = ts /\ m.content = content

\* C20: in every reachable state, also in the middle of a send and after a
\* send that failed part-way, each conversations_by_user row, and the
\* last-message fields of each conversation_metadata row that are set, are
\* those of a message that is in messages_by_conversation.
C20_LogIsBoundary ==
    /\ \A s \in conversations_by_user :
           MessageLogged(s.conversation_id, s.last_message_at, s.last_message_content)
    /\ \A r \in conversation_metadata :
           /\ r.last_message_at # NULL =>
                  MessageLogged(r.conversation_id, r.last_message_at,
                                r.last_message_content)
           /\ r.last_message_content # NoContent =>
                  \E m \in MessagesOf(r.conversation_id) :
                      m.content = r.last_message_content

\* A send has failed after its sender summary row was written, and another
\* send has completed: summary rows and last-message fields exist.
C20_Witness ==
    /\ \E p \in Procs : loc[p].op = "send" /\ loc[p].status = "error"
    /\ \E p \in Procs : SendReturned(p)
    /\ Cardinality(conversations_by_user) >= 3
    /\ \E r \in conversation_metadata : r.last_message_at # NULL

\* ----------------------------------------------------------------- C21
\* The call record of the message row m: what create_message held when it
\* wrote the row.
CallOf(m) ==
    [sender_id |-> m.sender_id, receiver_id |-> m.receiver_id,
     conversation_id |-> m.conversation_id, timestamp |-> m.created_at,
     message_id |-> m.message_id, content |-> m.content]

\* The two ConversationSummary writes and the last-message update of
\* create_message for the message m, executed on the views v.
Refan(m, v) ==
    [summaries |->
         InsertSummary(InsertSummary(v.summaries, SenderSummaryRow(CallOf(m))),
                       ReceiverSummaryRow(CallOf(m))),
     metadata |->
         UpdateMetadata(v.metadata, m.conversation_id, m.created_at, m.content)]

Views == [summaries |-> conversations_by_user, metadata |-> conversation_metadata]

RetriedBy(p, q) ==
    /\ p # q
    /\ loc[p].op = "send" /\ loc[p].status = "error"
    /\ loc[p].failed_at \in AfterMessage
    /\ SendReturned(q) /\ loc[q].retry
    /\ loc[q].sender_id = loc[p].sender_id
    /\ loc[q].receiver_id = loc[p].receiver_id
    /\ loc[q].content = loc[p].content

\* C22: after the retry of a send that failed behind its Message row has
\* succeeded, the message log holds the message once and lists it.
C22_RetryKeepsOne ==
    \A p \in Procs, q \in Procs :
        RetriedBy(p, q) =>
            /\ MessageListed(loc[q])
            /\ Cardinality({m \in messages_by_conversation :
                               m.message_id \in {loc[p].message_id,
                                                 loc[q].message_id}}) = 1

\* ----------------------------------------------------------------- C23
\* The store calls of create_message that come before the insert of the
\* Message row: those of the conversation resolve.
BeforeMessage == {"lookup", "ins_lookup", "ins_meta"}

\* The process p takes a step of the conversation resolve.
ResolveStep(p) ==
    pc[p] \in BeforeMessage \cup {"gen_id"} /\ pc'[p] # pc[p]

\* A store call of the create_message call of p raises in this step.
SendRaises(p) ==
    /\ loc[p].op = "send" /\ pc[p] \in StoreSteps
    /\ loc'[p].status = "error"

\* The rows of messages_by_conversation that carry the message_id of the call l.
RowsOf(l) ==
    {m \in messages_by_conversation : m.message_id = l.message_id}

\* C23: when a store call of create_message raises, the step writes nothing
\* and undoes nothing, the call ends there with HTTP 500 and runs no later
\* step; the Message row of a call that failed behind its insert stays, and a
\* call that failed before the insert has no Message row.
C23_FailureStopsFanout ==
    /\ [][/\ \A p \in Procs :
                 SendRaises(p) =>
                     /\ UNCHANGED tables
                     /\ pc'[p] = "idle"
                     /\ loc'[p].status_code = 500
          /\ \A p \in Procs :
                 ResolveStep(p) =>
                     UNCHANGED <<messages_by_conversation, conversations_by_user>>
         ]_vars
    /\ [](\A p \in Procs :
              (loc[p].op = "send" /\ loc[p].status = "error") =>
                  /\ pc[p] = "idle"
                  /\ loc[p].failed_at \in AfterMessage
                         => Cardinality(RowsOf(loc[p])) = 1
                  /\ loc[p].failed_at \in BeforeMessage \cup {"ins_msg"}
                         => RowsOf(loc[p]) = {})

\* A send has failed at its metadata update: its Message row and both of its
\* summary rows are in the tables, and the Conversation row has no last
\* message.
C23_Witness ==
    \E p \in Procs :
        /\ loc[p].op = "send" /\ loc[p].status = "error"
        /\ loc[p].failed_at = "upd_meta"
        /\ Cardinality(RowsOf(loc[p])) = 1
        /\ \E s \in conversations_by_user : s.user_id = loc[p].sender_id
        /\ \E s \in conversations_by_user : s.user_id = loc[p].receiver_id
        /\ \A r \in conversation_metadata : r.last_message_at = NULL
        /\ conversation_metadata # {}

\* ----------------------------------------------------------------- C24
\* The connect() call c made no more than `retries` attempts, slept once after
\* each failed attempt but the last, and raised only at the last attempt.
WithinRetries(c) ==
    /\ c.n <= c.retries
    /\ c.outcome \in {"running", "returned"} /\ c.retries >= 1 => c.sleeps = c.n - 1
    /\ c.outcome = "raised" => c.n = c.retries /\ c.sleeps = c.retries - 1

\* Every connect() that is running comes to its end.
ConnectEnds ==
    \A t \in Threads :
        (attempt[t].outcome = "running") ~> (attempt[t].outcome # "running")

\* C24 as claimed: connect(retries, delay) ends after at most `retries`
\* attempts, sleeps after each failed attempt but the last, raises after the
\* last failed attempt, and has returned only with a session established.
C24_ConnectEstablishes ==
    \A t \in Threads :
        /\ WithinRetries(attempt[t])
        /\ attempt[t].outcome = "returned" => session # NULL

\* C24 as amended: the same for retries >= 1; with retries < 1 connect makes
\* no attempt and returns at once, with or without a session.
C24_ConnectBounded ==
    /\ [](\A t \in Threads :
              /\ WithinRetries(attempt[t])
              /\ (attempt[t].outcome = "returned" /\ attempt[t].retries >= 1)
                     => session # NULL
              /\ (attempt[t].outcome = "returned" /\ attempt[t].retries < 1)
                     => attempt[t].n = 0 /\ attempt[t].sleeps = 0)
    /\ ConnectEnds

\* One connect() has returned at its second attempt after one sleep, and
\* another has raised at its last attempt.
C24_Witness ==
    \E t \in Threads, u \in Threads :
        /\ attempt[t].outcome = "returned" /\ attempt[t].n = 2
        /\ attempt[t].sleeps = 1 /\ session # NULL
        /\ attempt[u].outcome = "raised" /\ attempt[u].n = attempt[u].retries

\* ----------------------------------------------------------------- C25
\* C25: every row of messages_by_conversation has a conversation_metadata row
\* of its conversation_id whose participants are the sender and the receiver
\* of the message.
C25_MessageInOwnConversation ==
    \A m \in messages_by_conversation :
        \E r \in conversation_metadata :
            /\ r.conversation_id = m.conversation_id
            /\ {r.user1_id, r.user2_id} = {m.sender_id, m.receiver_id}

\* ----------------------------------------------------------------- C26
\* C26: a message page returned with has_more = false ends the listing: the
\* conversation has fewer than page * limit messages, and a page of
\* get_messages_before_timestamp with has_more = false means that fewer than
\* limit messages are older than the timestamp.
C26_NoMoreMeansExhausted ==
    \A cid \in ReadableConvIds, limit \in Limits, page \in Pages :
        /\ ~Controller_get_conversation_messages(cid, page, limit).has_more
               => Cardinality(MessagesOf(cid)) < page * limit
        /\ \A t \in BeforeTimes :
               ~Controller_get_messages_before_timestamp(cid, t, page, limit).has_more
                   => Cardinality({m \in MessagesOf(cid) : m.created_at < t}) < limit

\* A conversation of two messages: page 2 of size 1 is full and reports more,
\* page 2 of size 2 is empty and reports no more, and of the listings before
\* the newer message's created_at the one of size 2 reports no more.
C26_Witness ==
    \E cid \in ReadableConvIds, t \in BeforeTimes :
        /\ Cardinality(MessagesOf(cid)) = 2
        /\ Controller_get_conversation_messages(cid, 2, 1).has_more
        /\ ~Controller_get_conversation_messages(cid, 2, 2).has_more
        /\ Controller_get_conversation_messages(cid, 2, 2).messages = <<>>
        /\ Cardinality({m \in MessagesOf(cid) : m.created_at < t}) = 1
        /\ ~Controller_get_messages_before_timestamp(cid, t, 1, 2).has_more
        /\ Controller_get_messages_before_timestamp(cid, t, 1, 1).has_more

====
